---- MODULE Spec2Model ----
(***************************************************************************)
(* State machine of the client-side real-time stream engine of YolovFeed:  *)
(* the transport session (SocketProvider), the per-camera state store      *)
(* (CameraProvider) and the REST commands whose acknowledgements the store *)
(* folds in.  Every handler of the source is one action; an async command  *)
(* is two steps, the call (up to its await) and its resolution/rejection.  *)
(***************************************************************************)
EXTENDS Integers, Sequences, FiniteSets, TLC

\* ------------------------------------------------------------------------
\* Bounds of the model
\* ------------------------------------------------------------------------
\* number of inbound transport messages delivered in one behaviour
MaxEvents == 2
\* number of user commands (add/delete/start/stop/toggle) issued in one behaviour
MaxCommands == 2

\* number of messages delivered while the stream view is open
MaxViewEvents == 3
\* number of clock advances while the stream view is open
MaxTicks == 2

\* the stream view with a clicking user: messages delivered, clock advances
\* and clicks on clickable regions
MaxClickEvents == 1
MaxClickTicks == 1
MaxClicks == 2

\* messages delivered to a stream view opened on a camera without state
MaxEndToEndEvents == 2

\* the stream view with toggles and resizes: messages delivered and commands
MaxStreamEvents == 2
MaxStreamCommands == 1

\* keepalive probes sent without a pong in between
MaxPings == 2
\* the session with transport failures and keepalive: messages and commands
MaxSocketEvents == 1
MaxSocketCommands == 1

\* InteractiveCameraStream: SOUND_COOLDOWN (ms)
SOUND_COOLDOWN == 1000
\* CameraGrid renders the preview modal with both options on
enableObjectClick == TRUE
enableSoundAlerts == TRUE

\* camera identifiers the REST collaborator can assign or events can carry
CameraIds == {"cam-1", "cam-2"}
\* encoded images a frame event can carry
Frames == {"f1", "f2"}

\* ------------------------------------------------------------------------
\* JavaScript object helpers: objects are functions with a dynamic domain
\* ------------------------------------------------------------------------
\* {}
EmptyObject == [k \in {} |-> k]

\* { ...base, ...upd }
Spread(base, upd) ==
  [k \in (DOMAIN base) \cup (DOMAIN upd) |-> IF k \in DOMAIN upd THEN upd[k] ELSE base[k]]

\* { ...prev, [key]: value }
Put(prev, key, value) ==
  [k \in (DOMAIN prev) \cup {key} |-> IF k = key THEN value ELSE prev[k]]

\* const next = { ...prev }; delete next[key]; return next
Remove(prev, key) ==
  [k \in (DOMAIN prev) \ {key} |-> prev[k]]

\* prev[key], where a missing key reads as undefined and spreads as {}
Entry(prev, key) == IF key \in DOMAIN prev THEN prev[key] ELSE EmptyObject

\* array.filter(x => x !== id)
RECURSIVE Filter(_, _)
Filter(list, id) ==
  IF list = <<>> THEN <<>>
  ELSE IF Head(list) = id THEN Filter(Tail(list), id)
       ELSE <<Head(list)>> \o Filter(Tail(list), id)

\* the identifiers of a camera list
Ids(list) == {list[i] : i \in DOMAIN list}

\* a list holding the members of a set (the order of the REST listing)
RECURSIVE ListOf(_)
ListOf(set) ==
  IF set = {} THEN <<>>
  ELSE LET x == CHOOSE y \in set : TRUE IN <<x>> \o ListOf(set \ {x})

\* ------------------------------------------------------------------------
\* Payloads of detection events
\* ------------------------------------------------------------------------
Person92 ==
  [class_name |-> "person", confidence |-> 92,
   bbox |-> [x1 |-> 100, y1 |-> 50, x2 |-> 200, y2 |-> 300, width |-> 100, height |-> 250]]

Person60 ==
  [class_name |-> "person", confidence |-> 60,
   bbox |-> [x1 |-> 300, y1 |-> 60, x2 |-> 400, y2 |-> 260, width |-> 100, height |-> 200]]

\* bodies of `detection` messages: detections with object_counts, with an
\* empty object_counts, and with object_counts absent (the field is optional)
DetectionBodies ==
  { [detections |-> <<Person92>>, object_counts |-> [person |-> 1]],
    [detections |-> <<>>, object_counts |-> EmptyObject],
    [detections |-> <<>>] }

\* the message object as received: type detection
DetectionMessage(c, body) ==
  Spread([type |-> "detection", camera_id |-> c, timestamp |-> "timestamp"], body)

\* bodies of the detection messages delivered while the stream view is open
ViewBodies ==
  { [detections |-> <<Person92>>, object_counts |-> [person |-> 1]],
    [detections |-> <<Person92, Person60>>, object_counts |-> [person |-> 2]] }

\* detections without a class name, with an empty one, without a bounding box
NoClass ==
  [confidence |-> 70,
   bbox |-> [x1 |-> 10, y1 |-> 20, x2 |-> 50, y2 |-> 80, width |-> 40, height |-> 60]]

EmptyClass ==
  [class_name |-> "", confidence |-> 70,
   bbox |-> [x1 |-> 10, y1 |-> 20, x2 |-> 50, y2 |-> 80, width |-> 40, height |-> 60]]

NoBox == [class_name |-> "car", confidence |-> 70]

\* bodies of the detection messages delivered to the stream view when the
\* annotations are looked at
StreamBodies ==
  { [detections |-> <<Person92>>, object_counts |-> [person |-> 1]],
    [detections |-> <<NoClass, Person60, NoBox, EmptyClass, Person92>>,
     object_counts |-> [person |-> 2, car |-> 1]] }

\* ------------------------------------------------------------------------
\* Frames, the canvas and its layout
\* ------------------------------------------------------------------------
\* img.width and img.height of the decoded frames
FrameSize(f) ==
  IF f = "f1" THEN [width |-> 640, height |-> 480] ELSE [width |-> 320, height |-> 240]

\* a canvas element as created: 300 x 150 until a script sets its attributes
DefaultCanvas == [width |-> 300, height |-> 150]

\* a canvas on which nothing was drawn
NoDrawing == [image |-> "none", boxes |-> <<>>]

\* the displayed box of the canvas (w-full h-full of its container): size and
\* canvasRect.left - containerRect.left, canvasRect.top - containerRect.top
Layouts ==
  { [width |-> 640, height |-> 480, left |-> 0, top |-> 0],
    [width |-> 960, height |-> 540, left |-> 2, top |-> 1] }

\* ------------------------------------------------------------------------
\* AudioManager
\* ------------------------------------------------------------------------
\* names of the cues loadSounds generates
SoundNames ==
  {"person", "car", "dog", "cat", "bird", "bicycle", "motorcycle", "bus", "truck",
   "click", "success", "warning", "error", "multiple_objects", "high_confidence"}

\* soundMap of playObjectDetectionSound
soundMap ==
  [person |-> "person", car |-> "car", truck |-> "truck", bus |-> "bus",
   motorcycle |-> "motorcycle", bicycle |-> "bicycle", dog |-> "dog", cat |-> "cat",
   bird |-> "bird", chair |-> "click", bottle |-> "click", laptop |-> "click",
   book |-> "click"] @@ ("cell phone" :> "click")

\* String.prototype.toLowerCase on the class names of the model
toLowerCase(str) ==
  CASE str = "Person" -> "person"
    [] str = "PERSON" -> "person"
    [] str = "Car" -> "car"
    [] str = "Cell Phone" -> "cell phone"
    [] str = "Zebra" -> "zebra"
    [] OTHER -> str

\* the singleton as constructed: enabled, no audio context, no buffers,
\* masterVolume 0.7 (in percent)
AudioManagerInstance ==
  [enabled |-> TRUE, audioContext |-> "null", soundBuffers |-> {}, masterVolume |-> 70]

\* Math.min
Min(a, b) == IF a < b THEN a ELSE b

\* playSound(soundName, volume): the playbacks it starts at time t (none or
\* one); volume in percent, gain in units of 1/20000
playSound(a, soundName, volume, t) ==
  IF ~a.enabled THEN <<>>
  ELSE IF a.audioContext = "null" THEN <<>>
  ELSE IF soundName \notin a.soundBuffers THEN <<>>
  ELSE <<[sound |-> soundName, volume |-> volume,
          gain |-> Min(volume, 100) * a.masterVolume, at |-> t]>>

\* JavaScript values passed as a confidence: typeof and, for a number or a
\* numeric string, the value in percent
Number(n) == [type |-> "number", value |-> n]
NotANumber == [type |-> "NaN", value |-> 0]
Undefined == [type |-> "undefined", value |-> 0]
NumericString(n) == [type |-> "string", value |-> n]

playObjectDetectionSound_FlatVolume(a, objectType, confidence, t) ==
  IF objectType = "" THEN <<>>
  ELSE LET key == toLowerCase(objectType)
           soundName == IF key \in DOMAIN soundMap THEN soundMap[key] ELSE "click"
           started == playSound(a, soundName, 70, t)
       IN [i \in DOMAIN started |->
             Spread(started[i], [objectType |-> objectType, confidence |-> confidence])]

\* playObjectDetectionSound as a function that reads the value of whatever
\* it is given
playObjectDetectionSound_AnyType(a, objectType, confidence, t) ==
  IF objectType = "" THEN <<>>
  ELSE LET key == toLowerCase(objectType)
           soundName == IF key \in DOMAIN soundMap THEN soundMap[key] ELSE "click"
           volume == IF confidence.value > 80 THEN 100
                     ELSE IF confidence.value > 50 THEN 70 ELSE 50
           started == playSound(a, soundName, volume, t)
       IN [i \in DOMAIN started |->
             Spread(started[i], [objectType |-> objectType, confidence |-> confidence])]

\* playObjectDetectionSound(objectType, confidence): the playbacks it starts,
\* each with the arguments of the call
playObjectDetectionSound(a, objectType, confidence, t) ==
  IF objectType = "" THEN <<>>
  ELSE LET number == IF confidence.type # "number" THEN 50 ELSE confidence.value
           key == toLowerCase(objectType)
           soundName == IF key \in DOMAIN soundMap THEN soundMap[key] ELSE "click"
           volume == IF number > 80 THEN 100 ELSE IF number > 50 THEN 70 ELSE 50
           started == playSound(a, soundName, volume, t)
       IN [i \in DOMAIN started |->
             Spread(started[i], [objectType |-> objectType, confidence |-> confidence])]

VARIABLES
  \* SocketProvider
  readyState,        \* the WebSocket: "connecting", "open", "closing" (its failure is
                     \* reported, its close event not yet) or "closed"
  isConnected,       \* useState isConnected
  onmessage,         \* handler installed on the socket: "log" or "camera"
  notifications,     \* toasts shown by the socket's callbacks, in order
  unanswered,        \* keepalive probes the running interval sent since the last pong
  \* CameraProvider
  connectionStatus,  \* useState connectionStatus
  cameras,           \* useState cameras (list of camera ids)
  cameraStatuses,    \* useState cameraStatuses
  detectionResults,  \* useState detectionResults
  cameraStreams,     \* useState cameraStreams
  objectCounts,      \* useState objectCounts
  isLoading,         \* useState isLoading
  \* REST collaborator and commands awaiting their acknowledgement
  serverCameras,     \* cameras the REST collaborator holds
  usedIds,           \* identifiers ever assigned (never reused)
  pending,           \* commands in flight
  \* bookkeeping
  events,            \* messages that can still be delivered
  commands,          \* commands that can still be issued
  lastOp,            \* the handler that ran last, with its arguments
  lastFrame,         \* per camera, payload of the frame event that arrived last
  detectedSinceOn,   \* per camera: isDetecting is true and a detection event
                     \* was processed since it last became true
  sinceToggleOff     \* per camera: "none", or "off"/"on" after a successful
                     \* toggle-off (and a later toggle-on) with no detection
                     \* event processed since

VARIABLES
  \* InteractiveCameraStream (rendered by the preview modal) and the clock
  cameraId,             \* prop cameraId of the mounted component, "none" while unmounted
  clickableDetections,  \* useState clickableDetections
  lastSoundTime,        \* useState lastSoundTime
  effectPending,        \* the clickable-detections effect is due (a dependency changed)
  now,                  \* Date.now()
  ticks,                \* clock advances that can still happen
  clicks,               \* clicks on a clickable region that can still happen
  canvas,               \* the canvas element: its width and height attributes
  layout,               \* canvas.getBoundingClientRect(), relative to the container's
  drawn,                \* what the canvas shows: the image drawn last and its annotations
  decodes,              \* images created by the render effect whose onload has not fired
  renderPending,        \* the render effect is due (a dependency changed)
  \* AudioManager singleton
  audio,                \* enabled, audioContext, soundBuffers
  playLog               \* playbacks started (source.start()), in order

socketVars == <<readyState, isConnected, onmessage, connectionStatus, notifications, unanswered>>
canvasVars == <<canvas, layout, drawn, decodes, renderPending>>
viewVars == <<cameraId, clickableDetections, lastSoundTime, effectPending, now, ticks, clicks,
             canvasVars>>
audioVars == <<audio, playLog>>
storeVars == <<cameras, cameraStatuses, detectionResults, cameraStreams, objectCounts, isLoading>>
restVars == <<serverCameras, usedIds, pending>>
ghostVars == <<events, commands, lastOp, lastFrame, detectedSinceOn, sinceToggleOff>>
vars == <<socketVars, storeVars, restVars, ghostVars, viewVars, audioVars>>

\* ------------------------------------------------------------------------
\* Readers of the store
\* ------------------------------------------------------------------------
\* status.isStreaming / status.isDetecting read as a condition
\* (cameraStatuses[id] || { isStreaming: false, isDetecting: false })
IsStreaming(statuses, c) ==
  /\ c \in DOMAIN statuses
  /\ "isStreaming" \in DOMAIN statuses[c]
  /\ statuses[c].isStreaming = TRUE

IsDetecting(statuses, c) ==
  /\ c \in DOMAIN statuses
  /\ "isDetecting" \in DOMAIN statuses[c]
  /\ statuses[c].isDetecting = TRUE

\* SetStatus as a store that rejects identifiers it has no entry for
SetStatus_KnownOnly(prev, c, upd) ==
  IF c \in DOMAIN prev THEN Put(prev, c, Spread(prev[c], upd)) ELSE prev

\* setCameraStatuses(prev => ({ ...prev, [id]: { ...prev[id], ...upd } }))
SetStatus(prev, c, upd) == Put(prev, c, Spread(Entry(prev, c), upd))

\* the same with `error: undefined` among the updates: the field reads as
\* undefined afterwards, which is modelled as the field being absent
SetStatusNoError(prev, c, upd) == Put(prev, c, Remove(Spread(Entry(prev, c), upd), "error"))

\* a command in flight
Command(op, c, enabled, list) == [op |-> op, cam |-> c, enabled |-> enabled, list |-> list]

\* ------------------------------------------------------------------------
\* Bookkeeping shared by the actions
\* ------------------------------------------------------------------------
\* detectedSinceOn after a step that leaves newStatuses; detected is the set
\* of cameras whose detection event the step processed
NextDetectedSinceOn(newStatuses, detected) ==
  [c \in CameraIds |->
     /\ IsDetecting(newStatuses, c)
     /\ \/ c \in detected
        \/ (IsDetecting(cameraStatuses, c) /\ detectedSinceOn[c])]

\* the store changed detectionResults[c] (changed) under a mounted component:
\* `detections` is a dependency of its clickable-detections effect
NotifyView(c, changed) ==
  /\ effectPending' = (effectPending \/ (cameraId = c /\ changed))
  /\ renderPending' = (renderPending \/ (cameraId = c /\ changed))
  /\ UNCHANGED <<cameraId, clickableDetections, lastSoundTime, now, ticks, clicks, audioVars>>
  /\ UNCHANGED <<canvas, layout, drawn, decodes>>

\* the store changed cameraStreams[c] under a mounted component:
\* `currentStream` is a dependency of its render effect only
NotifyFrame(c, changed) ==
  /\ renderPending' = (renderPending \/ (cameraId = c /\ changed))
  /\ UNCHANGED <<cameraId, clickableDetections, lastSoundTime, effectPending, now, ticks,
                 clicks, audioVars>>
  /\ UNCHANGED <<canvas, layout, drawn, decodes>>

\* the record of a handler run: its arguments, whether the camera had a
\* status entry before it ran and the frame cached for it before it ran
Op(op, c, arg) ==
  [op |-> op, cam |-> c, arg |-> arg,
   known |-> c \in DOMAIN cameraStatuses,
   prevFrame |-> IF c \in DOMAIN cameraStreams THEN cameraStreams[c] ELSE "none"]

\* ------------------------------------------------------------------------
\* Initial state: both providers mounted, the socket being opened and the
\* mount effect's refreshCameras() awaiting the camera listing
\* ------------------------------------------------------------------------
\* e messages and k commands can still happen
Boot(e, k) ==
  /\ readyState = "connecting"
  /\ isConnected = FALSE
  /\ onmessage = "log"
  /\ connectionStatus = FALSE
  /\ notifications = <<>>
  /\ unanswered = 0
  /\ cameras = <<>>
  /\ cameraStatuses = EmptyObject
  /\ detectionResults = EmptyObject
  /\ cameraStreams = EmptyObject
  /\ objectCounts = EmptyObject
  /\ isLoading = TRUE
  /\ serverCameras = {"cam-1"}
  /\ usedIds = serverCameras
  /\ pending = {Command("refreshCameras", "-", FALSE, serverCameras)}
  /\ events = e
  /\ commands = k
  /\ lastOp = Op("mount", "-", "-")
  /\ lastFrame = [c \in CameraIds |-> "none"]
  /\ detectedSinceOn = [c \in CameraIds |-> FALSE]
  /\ sinceToggleOff = [c \in CameraIds |-> "none"]
  /\ cameraId = "none"
  /\ clickableDetections = <<>>
  /\ lastSoundTime = EmptyObject
  /\ effectPending = FALSE
  /\ now = SOUND_COOLDOWN + 1
  /\ ticks = 0
  /\ clicks = 0
  /\ canvas = DefaultCanvas
  /\ layout = [width |-> 640, height |-> 480, left |-> 0, top |-> 0]
  /\ drawn = NoDrawing
  /\ decodes = {}
  /\ renderPending = FALSE
  /\ audio = AudioManagerInstance
  /\ playLog = <<>>

Init == Boot(MaxEvents, MaxCommands)

\* ------------------------------------------------------------------------
\* SocketProvider
\* ------------------------------------------------------------------------
OnOpen_Reconnects ==
  /\ readyState \in {"connecting", "closed"}
  /\ readyState' = "open"
  /\ isConnected' = TRUE
  /\ notifications' = Append(notifications, "Connected to server")
  /\ UNCHANGED lastOp
  /\ UNCHANGED <<onmessage, connectionStatus, unanswered, storeVars, restVars, events, commands,
                 lastFrame, detectedSinceOn, sinceToggleOff>>
  /\ UNCHANGED <<viewVars, audioVars>>

\* socket.onopen
OnOpen ==
  /\ readyState = "connecting"
  /\ readyState' = "open"
  /\ isConnected' = TRUE
  /\ notifications' = Append(notifications, "Connected to server")
  /\ UNCHANGED lastOp
  /\ UNCHANGED <<onmessage, connectionStatus, unanswered, storeVars, restVars, events, commands, lastFrame,
                 detectedSinceOn, sinceToggleOff>>
  /\ UNCHANGED <<viewVars, audioVars>>

\* socket.onerror: the connection failed; the browser fires close next
OnError ==
  /\ readyState \in {"connecting", "open"}
  /\ readyState' = "closing"
  /\ notifications' = Append(notifications, "Connection error")
  /\ UNCHANGED lastOp
  /\ UNCHANGED <<isConnected, onmessage, connectionStatus, unanswered, storeVars, restVars,
                 events, commands, lastFrame, detectedSinceOn, sinceToggleOff>>
  /\ UNCHANGED <<viewVars, audioVars>>

OnClose_ResetsCameras ==
  /\ readyState \in {"connecting", "open", "closing"}
  /\ readyState' = "closed"
  /\ isConnected' = FALSE
  /\ notifications' = Append(notifications, "Disconnected from server")
  /\ cameraStatuses' =
       [c \in DOMAIN cameraStatuses |->
          Spread(cameraStatuses[c], [isStreaming |-> FALSE, error |-> "Disconnected"])]
  /\ UNCHANGED lastOp
  /\ UNCHANGED <<onmessage, connectionStatus, unanswered, cameras, detectionResults,
                 cameraStreams, objectCounts, isLoading, restVars, events, commands,
                 lastFrame, detectedSinceOn, sinceToggleOff>>
  /\ UNCHANGED <<viewVars, audioVars>>

\* socket.onclose
OnClose ==
  /\ readyState \in {"connecting", "open", "closing"}
  /\ readyState' = "closed"
  /\ isConnected' = FALSE
  /\ notifications' = Append(notifications, "Disconnected from server")
  /\ UNCHANGED lastOp
  /\ UNCHANGED <<onmessage, connectionStatus, unanswered, storeVars, restVars, events,
                 commands, lastFrame, detectedSinceOn, sinceToggleOff>>
  /\ UNCHANGED <<viewVars, audioVars>>

\* CameraProvider's effects on isConnected turned true: connectionStatus
\* follows, ws.onmessage is installed and the keepalive interval is started
SetupSocketListeners ==
  /\ isConnected
  /\ onmessage = "log"
  /\ onmessage' = "camera"
  /\ connectionStatus' = TRUE
  /\ UNCHANGED lastOp
  /\ UNCHANGED <<readyState, isConnected, notifications, unanswered, storeVars, restVars,
                 events, commands, lastFrame, detectedSinceOn, sinceToggleOff>>
  /\ UNCHANGED <<viewVars, audioVars>>

\* CameraProvider's effects on isConnected turned false: the cleanup clears
\* the keepalive interval and connectionStatus follows
TeardownSocketListeners ==
  /\ ~isConnected
  /\ connectionStatus
  /\ connectionStatus' = FALSE
  /\ unanswered' = 0
  /\ UNCHANGED lastOp
  /\ UNCHANGED <<readyState, isConnected, onmessage, notifications, storeVars,
                 restVars, events, commands, lastFrame, detectedSinceOn, sinceToggleOff>>
  /\ UNCHANGED <<viewVars, audioVars>>

SendPing_GivesUp ==
  /\ onmessage = "camera"
  /\ connectionStatus
  /\ unanswered < MaxPings
  /\ unanswered' = unanswered + 1
  /\ isConnected' = (isConnected /\ unanswered < 1)
  /\ UNCHANGED lastOp
  /\ UNCHANGED <<readyState, onmessage, connectionStatus, notifications, storeVars,
                 restVars, events, commands, lastFrame, detectedSinceOn, sinceToggleOff>>
  /\ UNCHANGED <<viewVars, audioVars>>

\* the keepalive interval fires: ws.send({type: 'ping'}), and nothing about
\* the probe is kept
SendPing ==
  /\ onmessage = "camera"
  /\ connectionStatus
  /\ unanswered < MaxPings
  /\ unanswered' = unanswered + 1
  /\ UNCHANGED lastOp
  /\ UNCHANGED <<readyState, isConnected, onmessage, connectionStatus, notifications,
                 storeVars, restVars, events, commands, lastFrame, detectedSinceOn,
                 sinceToggleOff>>
  /\ UNCHANGED <<viewVars, audioVars>>

\* a message can be delivered
Deliverable ==
  /\ readyState = "open"
  /\ events > 0

\* SocketProvider's own socket.onmessage: parses and logs the message
LogMessage(c, f) ==
  /\ Deliverable
  /\ onmessage = "log"
  /\ events' = events - 1
  /\ lastOp' = Op("log", c, f)
  /\ lastFrame' = [lastFrame EXCEPT ![c] = f]
  /\ UNCHANGED <<socketVars, storeVars, restVars, commands, detectedSinceOn, sinceToggleOff>>
  /\ UNCHANGED <<viewVars, audioVars>>

\* ------------------------------------------------------------------------
\* CameraProvider: handleSocketMessage
\* ------------------------------------------------------------------------
\* HandleFrame as a handler that keeps the frame it has already cached
HandleFrame_KeepFirst(c, f) ==
  /\ Deliverable
  /\ onmessage = "camera"
  /\ cameraStreams' = IF c \in DOMAIN cameraStreams THEN cameraStreams ELSE Put(cameraStreams, c, f)
  /\ cameraStatuses' = SetStatus(cameraStatuses, c, [isStreaming |-> TRUE, lastSeen |-> "timestamp"])
  /\ events' = events - 1
  /\ lastOp' = Op("frame", c, f)
  /\ lastFrame' = [lastFrame EXCEPT ![c] = f]
  /\ detectedSinceOn' = NextDetectedSinceOn(cameraStatuses', {})
  /\ UNCHANGED <<socketVars, cameras, detectionResults, objectCounts, isLoading,
                 restVars, commands, sinceToggleOff>>
  /\ UNCHANGED <<viewVars, audioVars>>

\* case 'frame'
HandleFrame(c, f) ==
  /\ Deliverable
  /\ onmessage = "camera"
  /\ cameraStreams' = Put(cameraStreams, c, f)
  /\ cameraStatuses' = SetStatus(cameraStatuses, c, [isStreaming |-> TRUE, lastSeen |-> "timestamp"])
  /\ events' = events - 1
  /\ lastOp' = Op("frame", c, f)
  /\ lastFrame' = [lastFrame EXCEPT ![c] = f]
  /\ detectedSinceOn' = NextDetectedSinceOn(cameraStatuses', {})
  /\ UNCHANGED <<socketVars, cameras, detectionResults, objectCounts, isLoading,
                 restVars, commands, sinceToggleOff>>
  /\ NotifyFrame(c, c \notin DOMAIN cameraStreams \/ cameraStreams[c] # f)

\* case 'detection'
HandleDetection(c, body) ==
  /\ Deliverable
  /\ onmessage = "camera"
  /\ detectionResults' = Put(detectionResults, c, DetectionMessage(c, body))
  /\ objectCounts' = IF "object_counts" \in DOMAIN body
                       THEN Put(objectCounts, c, body.object_counts)
                       ELSE objectCounts
  /\ cameraStatuses' = SetStatus(cameraStatuses, c, [isDetecting |-> TRUE, lastSeen |-> "timestamp"])
  /\ events' = events - 1
  /\ lastOp' = Op("detection", c, body)
  /\ detectedSinceOn' = NextDetectedSinceOn(cameraStatuses', {c})
  /\ sinceToggleOff' = [sinceToggleOff EXCEPT ![c] = "none"]
  /\ UNCHANGED <<socketVars, cameras, cameraStreams, isLoading, restVars, commands, lastFrame>>
  /\ NotifyView(c, TRUE)

\* case 'detection_status' (message.enabled || false)
HandleDetectionStatus(c, enabled) ==
  /\ Deliverable
  /\ onmessage = "camera"
  /\ cameraStatuses' = SetStatus(cameraStatuses, c, [isDetecting |-> enabled])
  /\ events' = events - 1
  /\ lastOp' = Op("detection_status", c, enabled)
  /\ detectedSinceOn' = NextDetectedSinceOn(cameraStatuses', {})
  /\ UNCHANGED <<socketVars, cameras, detectionResults, cameraStreams, objectCounts,
                 isLoading, restVars, commands, lastFrame, sinceToggleOff>>
  /\ UNCHANGED <<viewVars, audioVars>>

\* case 'pong'
HandlePong ==
  /\ Deliverable
  /\ onmessage = "camera"
  /\ events' = events - 1
  /\ lastOp' = Op("pong", "-", "-")
  /\ unanswered' = 0
  /\ UNCHANGED <<readyState, isConnected, onmessage, connectionStatus, notifications,
                 storeVars, restVars, commands, lastFrame, detectedSinceOn, sinceToggleOff>>
  /\ UNCHANGED <<viewVars, audioVars>>

\* ------------------------------------------------------------------------
\* CameraProvider: refreshCameras
\* ------------------------------------------------------------------------
\* cameraAPI.getCameras() resolved with the listing taken when it was asked
refreshCamerasResolved(cmd) ==
  /\ cmd \in pending
  /\ cmd.op = "refreshCameras"
  /\ pending' = pending \ {cmd}
  /\ cameras' = ListOf(cmd.list)
  /\ cameraStatuses' =
       [c \in cmd.list |-> [isStreaming |-> FALSE, isDetecting |-> FALSE, lastSeen |-> "created_at"]]
  /\ isLoading' = FALSE
  /\ lastOp' = Op("refreshCameras", "-", TRUE)
  /\ detectedSinceOn' = NextDetectedSinceOn(cameraStatuses', {})
  /\ UNCHANGED <<socketVars, detectionResults, cameraStreams, objectCounts,
                 serverCameras, usedIds, events, commands, lastFrame, sinceToggleOff>>
  /\ UNCHANGED <<viewVars, audioVars>>

\* cameraAPI.getCameras() rejected
refreshCamerasRejected(cmd) ==
  /\ cmd \in pending
  /\ cmd.op = "refreshCameras"
  /\ pending' = pending \ {cmd}
  /\ isLoading' = FALSE
  /\ lastOp' = Op("refreshCameras", "-", FALSE)
  /\ UNCHANGED <<socketVars, cameras, cameraStatuses, detectionResults, cameraStreams,
                 objectCounts, serverCameras, usedIds, events, commands, lastFrame,
                 detectedSinceOn, sinceToggleOff>>
  /\ UNCHANGED <<viewVars, audioVars>>

\* ------------------------------------------------------------------------
\* Commands: the callers (CameraCard, CameraPreviewModal, AddCameraModal)
\* ------------------------------------------------------------------------
\* a command can be issued: the budget is not spent and no identical command
\* is awaiting its acknowledgement
CanIssue(cmd) ==
  /\ commands > 0
  /\ cmd \notin pending

\* the command's REST call is sent
Issue(cmd) ==
  /\ CanIssue(cmd)
  /\ pending' = pending \cup {cmd}
  /\ commands' = commands - 1
  /\ UNCHANGED lastOp

\* addCamera up to its await
addCamera ==
  /\ Issue(Command("addCamera", "-", FALSE, {}))
  /\ isLoading' = TRUE
  /\ UNCHANGED <<socketVars, cameras, cameraStatuses, detectionResults, cameraStreams,
                 objectCounts, serverCameras, usedIds, events, lastFrame,
                 detectedSinceOn, sinceToggleOff>>
  /\ UNCHANGED <<viewVars, audioVars>>

\* the card of a listed camera: handleDeleteCamera -> deleteCamera up to its await
deleteCamera(c) ==
  /\ c \in Ids(cameras)
  /\ Issue(Command("deleteCamera", c, FALSE, {}))
  /\ UNCHANGED <<socketVars, storeVars, serverCameras, usedIds, events, lastFrame,
                 detectedSinceOn, sinceToggleOff>>
  /\ UNCHANGED <<viewVars, audioVars>>

\* Start button (shown while !status.isStreaming) -> startCamera up to its await;
\* `was` keeps isStreaming as it is when the command is issued
startCamera(c) ==
  /\ c \in Ids(cameras)
  /\ ~IsStreaming(cameraStatuses, c)
  /\ Issue(Spread(Command("startCamera", c, FALSE, {}),
                  [was |-> IsStreaming(cameraStatuses, c)]))
  /\ UNCHANGED <<socketVars, storeVars, serverCameras, usedIds, events, lastFrame,
                 detectedSinceOn, sinceToggleOff>>
  /\ UNCHANGED <<viewVars, audioVars>>

\* Stop button (shown while status.isStreaming) -> stopCamera up to its await
stopCamera(c) ==
  /\ c \in Ids(cameras)
  /\ IsStreaming(cameraStatuses, c)
  /\ Issue(Spread(Command("stopCamera", c, FALSE, {}),
                  [was |-> IsStreaming(cameraStatuses, c)]))
  /\ UNCHANGED <<socketVars, storeVars, serverCameras, usedIds, events, lastFrame,
                 detectedSinceOn, sinceToggleOff>>
  /\ UNCHANGED <<viewVars, audioVars>>

\* Detect button (disabled while !status.isStreaming) ->
\* toggleDetection(camera.id, !status.isDetecting) up to its await
toggleDetection(c) ==
  /\ c \in Ids(cameras)
  /\ IsStreaming(cameraStatuses, c)
  /\ Issue(Command("toggleDetection", c, ~IsDetecting(cameraStatuses, c), {}))
  /\ UNCHANGED <<socketVars, storeVars, serverCameras, usedIds, events, lastFrame,
                 detectedSinceOn, sinceToggleOff>>
  /\ UNCHANGED <<viewVars, audioVars>>

\* ------------------------------------------------------------------------
\* Commands: acknowledgements
\* ------------------------------------------------------------------------
\* the awaited call of a command in flight settles
Settle(cmd, op, ok) ==
  /\ cmd \in pending
  /\ cmd.op = op
  /\ pending' = pending \ {cmd}
  /\ lastOp' = Op(op, cmd.cam, IF op = "toggleDetection" THEN <<ok, cmd.enabled>> ELSE <<ok>>)

\* cameraAPI.addCamera resolved: the collaborator assigned a fresh identifier
addCameraResolved(cmd, id) ==
  /\ Settle(cmd, "addCamera", TRUE)
  /\ id \notin usedIds
  /\ serverCameras' = serverCameras \cup {id}
  /\ usedIds' = usedIds \cup {id}
  /\ cameras' = Append(cameras, id)
  /\ cameraStatuses' = Put(cameraStatuses, id,
                           [isStreaming |-> FALSE, isDetecting |-> FALSE, lastSeen |-> "created_at"])
  /\ isLoading' = FALSE
  /\ detectedSinceOn' = NextDetectedSinceOn(cameraStatuses', {})
  /\ UNCHANGED <<socketVars, detectionResults, cameraStreams, objectCounts, events,
                 commands, lastFrame, sinceToggleOff>>
  /\ UNCHANGED <<viewVars, audioVars>>

\* cameraAPI.addCamera rejected
addCameraRejected(cmd) ==
  /\ Settle(cmd, "addCamera", FALSE)
  /\ isLoading' = FALSE
  /\ UNCHANGED <<socketVars, cameras, cameraStatuses, detectionResults, cameraStreams,
                 objectCounts, serverCameras, usedIds, events, commands, lastFrame,
                 detectedSinceOn, sinceToggleOff>>
  /\ UNCHANGED <<viewVars, audioVars>>

\* deleteCameraResolved as a purge that forgets the stream buffer
deleteCameraResolved_KeepsStream(cmd) ==
  /\ Settle(cmd, "deleteCamera", TRUE)
  /\ serverCameras' = serverCameras \ {cmd.cam}
  /\ cameras' = Filter(cameras, cmd.cam)
  /\ cameraStatuses' = Remove(cameraStatuses, cmd.cam)
  /\ detectionResults' = Remove(detectionResults, cmd.cam)
  /\ objectCounts' = Remove(objectCounts, cmd.cam)
  /\ detectedSinceOn' = NextDetectedSinceOn(cameraStatuses', {})
  /\ UNCHANGED <<socketVars, cameraStreams, isLoading, usedIds, events, commands,
                 lastFrame, sinceToggleOff>>
  /\ NotifyView(cmd.cam, cmd.cam \in DOMAIN detectionResults)

\* deleteCameraResolved as a handler that drops every camera's cached frame
deleteCameraResolved_ClearsAllStreams(cmd) ==
  /\ Settle(cmd, "deleteCamera", TRUE)
  /\ serverCameras' = serverCameras \ {cmd.cam}
  /\ cameras' = Filter(cameras, cmd.cam)
  /\ cameraStatuses' = Remove(cameraStatuses, cmd.cam)
  /\ detectionResults' = Remove(detectionResults, cmd.cam)
  /\ cameraStreams' = EmptyObject
  /\ objectCounts' = Remove(objectCounts, cmd.cam)
  /\ detectedSinceOn' = NextDetectedSinceOn(cameraStatuses', {})
  /\ UNCHANGED <<socketVars, isLoading, usedIds, events, commands, lastFrame, sinceToggleOff>>
  /\ NotifyView(cmd.cam, cmd.cam \in DOMAIN detectionResults)

\* cameraAPI.deleteCamera resolved: the five updates of one handler are
\* committed together
deleteCameraResolved(cmd) ==
  /\ Settle(cmd, "deleteCamera", TRUE)
  /\ serverCameras' = serverCameras \ {cmd.cam}
  /\ cameras' = Filter(cameras, cmd.cam)
  /\ cameraStatuses' = Remove(cameraStatuses, cmd.cam)
  /\ detectionResults' = Remove(detectionResults, cmd.cam)
  /\ cameraStreams' = Remove(cameraStreams, cmd.cam)
  /\ objectCounts' = Remove(objectCounts, cmd.cam)
  /\ detectedSinceOn' = NextDetectedSinceOn(cameraStatuses', {})
  /\ UNCHANGED <<socketVars, isLoading, usedIds, events, commands, lastFrame, sinceToggleOff>>
  /\ NotifyView(cmd.cam, cmd.cam \in DOMAIN detectionResults)

\* cameraAPI.deleteCamera rejected
deleteCameraRejected(cmd) ==
  /\ Settle(cmd, "deleteCamera", FALSE)
  /\ UNCHANGED <<socketVars, storeVars, serverCameras, usedIds, events, commands,
                 lastFrame, detectedSinceOn, sinceToggleOff>>
  /\ UNCHANGED <<viewVars, audioVars>>

\* cameraAPI.startCamera resolved
startCameraResolved(cmd) ==
  /\ Settle(cmd, "startCamera", TRUE)
  /\ cameraStatuses' = SetStatusNoError(cameraStatuses, cmd.cam, [isStreaming |-> TRUE])
  /\ detectedSinceOn' = NextDetectedSinceOn(cameraStatuses', {})
  /\ UNCHANGED <<socketVars, cameras, detectionResults, cameraStreams, objectCounts,
                 isLoading, serverCameras, usedIds, events, commands, lastFrame, sinceToggleOff>>
  /\ UNCHANGED <<viewVars, audioVars>>

\* cameraAPI.startCamera rejected
startCameraRejected(cmd) ==
  /\ Settle(cmd, "startCamera", FALSE)
  /\ cameraStatuses' = SetStatus(cameraStatuses, cmd.cam,
                                 [isStreaming |-> FALSE, error |-> "Failed to start camera"])
  /\ detectedSinceOn' = NextDetectedSinceOn(cameraStatuses', {})
  /\ UNCHANGED <<socketVars, cameras, detectionResults, cameraStreams, objectCounts,
                 isLoading, serverCameras, usedIds, events, commands, lastFrame, sinceToggleOff>>
  /\ UNCHANGED <<viewVars, audioVars>>

\* cameraAPI.stopCamera resolved
stopCameraResolved(cmd) ==
  /\ Settle(cmd, "stopCamera", TRUE)
  /\ cameraStatuses' = SetStatusNoError(cameraStatuses, cmd.cam,
                                        [isStreaming |-> FALSE, isDetecting |-> FALSE])
  /\ cameraStreams' = Remove(cameraStreams, cmd.cam)
  /\ detectedSinceOn' = NextDetectedSinceOn(cameraStatuses', {})
  /\ UNCHANGED <<socketVars, cameras, detectionResults, objectCounts, isLoading,
                 serverCameras, usedIds, events, commands, lastFrame, sinceToggleOff>>
  /\ UNCHANGED <<viewVars, audioVars>>

\* cameraAPI.stopCamera rejected: the catch block only notifies
stopCameraRejected(cmd) ==
  /\ Settle(cmd, "stopCamera", FALSE)
  /\ UNCHANGED <<socketVars, storeVars, serverCameras, usedIds, events, commands,
                 lastFrame, detectedSinceOn, sinceToggleOff>>
  /\ UNCHANGED <<viewVars, audioVars>>

\* toggleDetectionResolved as a toggle-off that drops the cached frame too
toggleDetectionResolved_DropsFrame(cmd) ==
  /\ Settle(cmd, "toggleDetection", TRUE)
  /\ cameraStatuses' = SetStatus(cameraStatuses, cmd.cam, [isDetecting |-> cmd.enabled])
  /\ detectionResults' = IF ~cmd.enabled THEN Remove(detectionResults, cmd.cam)
                         ELSE detectionResults
  /\ objectCounts' = IF ~cmd.enabled THEN Remove(objectCounts, cmd.cam) ELSE objectCounts
  /\ cameraStreams' = IF ~cmd.enabled THEN Remove(cameraStreams, cmd.cam) ELSE cameraStreams
  /\ detectedSinceOn' = NextDetectedSinceOn(cameraStatuses', {})
  /\ sinceToggleOff' =
       [sinceToggleOff EXCEPT ![cmd.cam] =
          IF ~cmd.enabled THEN "off" ELSE IF @ = "none" THEN "none" ELSE "on"]
  /\ UNCHANGED <<socketVars, cameras, isLoading, serverCameras, usedIds,
                 events, commands, lastFrame>>
  /\ NotifyView(cmd.cam, ~cmd.enabled /\ cmd.cam \in DOMAIN detectionResults)

\* toggleDetectionResolved as a toggle that leaves the object counts in place
toggleDetectionResolved_KeepsCounts(cmd) ==
  /\ Settle(cmd, "toggleDetection", TRUE)
  /\ cameraStatuses' = SetStatus(cameraStatuses, cmd.cam, [isDetecting |-> cmd.enabled])
  /\ detectionResults' = IF ~cmd.enabled THEN Remove(detectionResults, cmd.cam)
                         ELSE detectionResults
  /\ detectedSinceOn' = NextDetectedSinceOn(cameraStatuses', {})
  /\ sinceToggleOff' =
       [sinceToggleOff EXCEPT ![cmd.cam] =
          IF ~cmd.enabled THEN "off" ELSE IF @ = "none" THEN "none" ELSE "on"]
  /\ UNCHANGED <<socketVars, cameras, cameraStreams, objectCounts, isLoading, serverCameras,
                 usedIds, events, commands, lastFrame>>
  /\ NotifyView(cmd.cam, ~cmd.enabled /\ cmd.cam \in DOMAIN detectionResults)

\* cameraAPI.toggleDetection resolved
toggleDetectionResolved(cmd) ==
  /\ Settle(cmd, "toggleDetection", TRUE)
  /\ cameraStatuses' = SetStatus(cameraStatuses, cmd.cam, [isDetecting |-> cmd.enabled])
  /\ detectionResults' = IF ~cmd.enabled THEN Remove(detectionResults, cmd.cam)
                         ELSE detectionResults
  /\ objectCounts' = IF ~cmd.enabled THEN Remove(objectCounts, cmd.cam) ELSE objectCounts
  /\ detectedSinceOn' = NextDetectedSinceOn(cameraStatuses', {})
  /\ sinceToggleOff' =
       [sinceToggleOff EXCEPT ![cmd.cam] =
          IF ~cmd.enabled THEN "off" ELSE IF @ = "none" THEN "none" ELSE "on"]
  /\ UNCHANGED <<socketVars, cameras, cameraStreams, isLoading, serverCameras, usedIds,
                 events, commands, lastFrame>>
  /\ NotifyView(cmd.cam, ~cmd.enabled /\ cmd.cam \in DOMAIN detectionResults)

\* toggleDetectionRejected as a catch block that writes the opposite of the
\* requested value and clears the camera's detections
toggleDetectionRejected_Reverts(cmd) ==
  /\ Settle(cmd, "toggleDetection", FALSE)
  /\ cameraStatuses' = SetStatus(cameraStatuses, cmd.cam, [isDetecting |-> ~cmd.enabled])
  /\ detectionResults' = Remove(detectionResults, cmd.cam)
  /\ objectCounts' = Remove(objectCounts, cmd.cam)
  /\ detectedSinceOn' = NextDetectedSinceOn(cameraStatuses', {})
  /\ UNCHANGED <<socketVars, cameras, cameraStreams, isLoading, serverCameras, usedIds,
                 events, commands, lastFrame, sinceToggleOff>>
  /\ NotifyView(cmd.cam, cmd.cam \in DOMAIN detectionResults)

\* cameraAPI.toggleDetection rejected: the catch block only notifies
toggleDetectionRejected(cmd) ==
  /\ Settle(cmd, "toggleDetection", FALSE)
  /\ UNCHANGED <<socketVars, storeVars, serverCameras, usedIds, events, commands,
                 lastFrame, detectedSinceOn, sinceToggleOff>>
  /\ UNCHANGED <<viewVars, audioVars>>

Next ==
  \/ OnOpen
  \/ OnClose
  \/ SetupSocketListeners
  \/ TeardownSocketListeners
  \/ \E c \in CameraIds, f \in Frames : LogMessage(c, f)
  \/ \E c \in CameraIds, f \in Frames : HandleFrame(c, f)
  \/ \E c \in CameraIds, body \in DetectionBodies : HandleDetection(c, body)
  \/ \E c \in CameraIds, enabled \in BOOLEAN : HandleDetectionStatus(c, enabled)
  \/ HandlePong
  \/ \E cmd \in pending : refreshCamerasResolved(cmd)
  \/ \E cmd \in pending : refreshCamerasRejected(cmd)
  \/ addCamera
  \/ \E c \in CameraIds : deleteCamera(c)
  \/ \E c \in CameraIds : startCamera(c)
  \/ \E c \in CameraIds : stopCamera(c)
  \/ \E c \in CameraIds : toggleDetection(c)
  \/ \E cmd \in pending, id \in CameraIds : addCameraResolved(cmd, id)
  \/ \E cmd \in pending : addCameraRejected(cmd)
  \/ \E cmd \in pending : deleteCameraResolved(cmd)
  \/ \E cmd \in pending : deleteCameraRejected(cmd)
  \/ \E cmd \in pending : startCameraResolved(cmd)
  \/ \E cmd \in pending : startCameraRejected(cmd)
  \/ \E cmd \in pending : stopCameraResolved(cmd)
  \/ \E cmd \in pending : stopCameraRejected(cmd)
  \/ \E cmd \in pending : toggleDetectionResolved(cmd)
  \/ \E cmd \in pending : toggleDetectionRejected(cmd)

Spec == Init /\ [][Next]_vars

\* the same session with a transport that can fail and with the keepalive
\* interval firing
SocketInit == Boot(MaxSocketEvents, MaxSocketCommands)

SocketNext ==
  \/ Next
  \/ OnError
  \/ SendPing

SocketSpec == SocketInit /\ [][SocketNext]_vars

\* ------------------------------------------------------------------------
\* InteractiveCameraStream
\* ------------------------------------------------------------------------
\* canvasRef.current: the canvas is rendered only while status?.isStreaming
CanvasMounted == cameraId # "none" /\ IsStreaming(cameraStatuses, cameraId)

\* !detection.bbox || !detection.class_name
HasEssentialData(detection) ==
  /\ "bbox" \in DOMAIN detection
  /\ "class_name" \in DOMAIN detection
  /\ detection.class_name # ""

\* detection.confidence || 0.5 (in percent)
ConfidenceOrDefault(detection) ==
  IF "confidence" \in DOMAIN detection /\ detection.confidence # 0
    THEN detection.confidence ELSE 50

\* lastSoundTime[objectType] || 0
LastPlayTime(times, objectType) ==
  IF objectType \in DOMAIN times THEN times[objectType] ELSE 0

\* playDetectionSound passes its guards: times is the lastSoundTime its
\* closure captured at the render that created it
SoundDue(times, objectType, t) ==
  /\ enableSoundAlerts
  /\ objectType # ""
  /\ t - LastPlayTime(times, objectType) > SOUND_COOLDOWN

\* JavaScript numbers of the geometry, kept exact as fractions <<n, d>>
Times(k, q) == <<k * q[1], q[2]>>
Plus(q, k) == <<q[1] + k * q[2], q[2]>>

calculateScreenCoordinates_SwapScale(detection, imageWidth, imageHeight) ==
  LET scaleX == <<layout.width, imageWidth>>
      scaleY == <<layout.height, imageHeight>>
  IN [screenX |-> Plus(Times(detection.bbox.x1, scaleX), layout.left),
      screenY |-> Plus(Times(detection.bbox.y1, scaleY), layout.top),
      screenWidth |-> Times(detection.bbox.width, scaleY),
      screenHeight |-> Times(detection.bbox.height, scaleX)]

\* calculateScreenCoordinates for a detection with a bbox, canvas and
\* container mounted
calculateScreenCoordinates(detection, imageWidth, imageHeight) ==
  LET scaleX == <<layout.width, imageWidth>>
      scaleY == <<layout.height, imageHeight>>
  IN [screenX |-> Plus(Times(detection.bbox.x1, scaleX), layout.left),
      screenY |-> Plus(Times(detection.bbox.y1, scaleY), layout.top),
      screenWidth |-> Times(detection.bbox.width, scaleX),
      screenHeight |-> Times(detection.bbox.height, scaleY)]

\* the forEach of the effect: the detections that become clickable, in
\* order, each {...detection, id, ...screenCoords}
RECURSIVE ClickableItems(_, _)
ClickableItems(detections, index) ==
  IF detections = <<>> THEN <<>>
  ELSE (IF HasEssentialData(Head(detections))
          THEN <<Spread(Spread(Head(detections), [id |-> <<cameraId, index, now>>]),
                        calculateScreenCoordinates(Head(detections),
                                                   canvas.width, canvas.height))>>
          ELSE <<>>)
       \o ClickableItems(Tail(detections), index + 1)

drawBoundingBoxes_NoSkip(detections) == detections

\* drawBoundingBoxes: the detections it annotates on the canvas, in order
RECURSIVE drawBoundingBoxes(_)
drawBoundingBoxes(detections) ==
  IF detections = <<>> THEN <<>>
  ELSE (IF HasEssentialData(Head(detections)) THEN <<Head(detections)>> ELSE <<>>)
       \o drawBoundingBoxes(Tail(detections))

\* the playbacks the forEach starts: every call of playDetectionSound reads
\* the same captured times
RECURSIVE PassPlaybacks(_, _, _, _)
PassPlaybacks(items, times, a, t) ==
  IF items = <<>> THEN <<>>
  ELSE (IF enableSoundAlerts /\ SoundDue(times, Head(items).class_name, t)
          THEN playObjectDetectionSound(a, Head(items).class_name,
                                        Number(ConfidenceOrDefault(Head(items))), t)
          ELSE <<>>)
       \o PassPlaybacks(Tail(items), times, a, t)

\* lastSoundTime after the queued setLastSoundTime(prev => ({...prev, [type]: now}))
RECURSIVE PassTimes(_, _, _, _)
PassTimes(items, times, prev, t) ==
  IF items = <<>> THEN prev
  ELSE PassTimes(Tail(items), times,
                 IF enableSoundAlerts /\ SoundDue(times, Head(items).class_name, t)
                   THEN Put(prev, Head(items).class_name, t) ELSE prev,
                 t)

\* some call of the pass queued a setLastSoundTime
PassQueuedUpdate(items, times, t) ==
  \E i \in DOMAIN items : enableSoundAlerts /\ SoundDue(times, items[i].class_name, t)

\* the effect on [detections, ..., playDetectionSound]
UpdateClickableDetections ==
  /\ cameraId # "none"
  /\ effectPending
  /\ IF \/ ~enableObjectClick
        \/ cameraId \notin DOMAIN detectionResults
        \/ "detections" \notin DOMAIN detectionResults[cameraId]
       THEN /\ clickableDetections' = <<>>
            /\ effectPending' = FALSE
            /\ UNCHANGED <<lastSoundTime, playLog>>
       ELSE IF ~CanvasMounted
         THEN /\ effectPending' = FALSE
              /\ UNCHANGED <<clickableDetections, lastSoundTime, playLog>>
         ELSE LET items == ClickableItems(detectionResults[cameraId].detections, 0)
              IN /\ clickableDetections' = items
                 /\ playLog' = playLog \o PassPlaybacks(items, lastSoundTime, audio, now)
                 /\ lastSoundTime' = PassTimes(items, lastSoundTime, lastSoundTime, now)
                 \* a new lastSoundTime object gives a new playDetectionSound,
                 \* a dependency of this effect
                 /\ effectPending' = PassQueuedUpdate(items, lastSoundTime, now)
  /\ UNCHANGED <<cameraId, now, ticks, clicks, canvasVars, audio, socketVars, storeVars, restVars,
                 ghostVars>>

\* the render effect on [currentStream, detections, enableObjectClick]: a new
\* Image whose onload closes over the canvas and this render's detections
RenderFrame ==
  /\ cameraId # "none"
  /\ renderPending
  /\ renderPending' = FALSE
  /\ IF ~CanvasMounted \/ cameraId \notin DOMAIN cameraStreams
       THEN UNCHANGED decodes
       ELSE decodes' = decodes \cup
              {[frame |-> cameraStreams[cameraId],
                detections |->
                  IF /\ enableObjectClick
                     /\ cameraId \in DOMAIN detectionResults
                     /\ "detections" \in DOMAIN detectionResults[cameraId]
                    THEN detectionResults[cameraId].detections ELSE <<>>]}
  /\ UNCHANGED <<cameraId, clickableDetections, lastSoundTime, effectPending, now, ticks,
                 clicks, canvas, layout, drawn, audioVars,
                 socketVars, storeVars, restVars, ghostVars>>

\* img.onload of one of the images being decoded (their order is the
\* browser's): the canvas takes the image's size, the image is drawn and
\* annotated
ImageLoaded(img) ==
  /\ img \in decodes
  /\ decodes' = decodes \ {img}
  /\ canvas' = FrameSize(img.frame)
  /\ drawn' = [image |-> img.frame, boxes |-> drawBoundingBoxes(img.detections)]
  /\ UNCHANGED <<cameraId, clickableDetections, lastSoundTime, effectPending, now, ticks,
                 clicks, layout, renderPending, audioVars,
                 socketVars, storeVars, restVars, ghostVars>>

\* the window or the modal changes size: the canvas is laid out again (the
\* component listens to no resize event)
Resize(l) ==
  /\ cameraId # "none"
  /\ l \in Layouts
  /\ l # layout
  /\ layout' = l
  /\ UNCHANGED <<cameraId, clickableDetections, lastSoundTime, effectPending, now, ticks,
                 clicks, canvas, drawn, decodes, renderPending, audioVars,
                 socketVars, storeVars, restVars, ghostVars>>

\* time passes (effects run right after the render that scheduled them)
Tick(d) ==
  /\ cameraId # "none"
  /\ ticks > 0
  /\ ~effectPending
  /\ now' = now + d
  /\ ticks' = ticks - 1
  /\ UNCHANGED <<cameraId, clickableDetections, lastSoundTime, effectPending, clicks, canvasVars,
                 audioVars,
                 socketVars, storeVars, restVars, ghostVars>>

\* AudioManagerComponent's effect on [enabled]: setEnabled(enabled) and, when
\* enabled, initialize(): a new context, which starts running (loadSounds
\* follows at once) or suspended (loadSounds waits for resume())
AudioManagerComponent(enabled, suspended) ==
  /\ cameraId # "none"
  /\ audio.audioContext = "null" \/ audio.enabled # enabled
  /\ audio' = IF ~enabled THEN [audio EXCEPT !.enabled = FALSE]
              ELSE IF suspended
                THEN [audio EXCEPT !.enabled = TRUE, !.audioContext = "suspended"]
                ELSE [audio EXCEPT !.enabled = TRUE, !.audioContext = "running",
                                   !.soundBuffers = SoundNames]
  /\ UNCHANGED <<playLog, viewVars, socketVars, storeVars, restVars, ghostVars>>

\* initialize() after await audioContext.resume(): loadSounds()
initializeResumed ==
  /\ audio.audioContext = "suspended"
  /\ audio' = [audio EXCEPT !.audioContext = "running", !.soundBuffers = SoundNames]
  /\ UNCHANGED <<playLog, viewVars, socketVars, storeVars, restVars, ghostVars>>

\* ------------------------------------------------------------------------
\* The stream view: the preview modal is open on a listed, streaming camera
\* ------------------------------------------------------------------------
\* e messages, t clock advances and k clicks can still happen
ViewState(e, t, k) ==
  /\ readyState = "open"
  /\ isConnected = TRUE
  /\ onmessage = "camera"
  /\ connectionStatus = TRUE
  /\ notifications = <<"Connected to server">>
  /\ unanswered = 0
  /\ cameras = <<"cam-1">>
  /\ cameraStatuses =
       [c \in {"cam-1"} |-> [isStreaming |-> TRUE, isDetecting |-> FALSE, lastSeen |-> "timestamp"]]
  /\ detectionResults = EmptyObject
  /\ cameraStreams = [c \in {"cam-1"} |-> "f1"]
  /\ objectCounts = EmptyObject
  /\ isLoading = FALSE
  /\ serverCameras = {"cam-1"}
  /\ usedIds = serverCameras
  /\ pending = {}
  /\ events = e
  /\ commands = 0
  /\ lastOp = [op |-> "frame", cam |-> "cam-1", arg |-> "f1", known |-> TRUE, prevFrame |-> "none"]
  /\ lastFrame = [c \in CameraIds |-> IF c = "cam-1" THEN "f1" ELSE "none"]
  /\ detectedSinceOn = [c \in CameraIds |-> FALSE]
  /\ sinceToggleOff = [c \in CameraIds |-> "none"]
  /\ cameraId = "cam-1"
  /\ clickableDetections = <<>>
  /\ lastSoundTime = EmptyObject
  /\ effectPending = TRUE
  /\ now = SOUND_COOLDOWN + 1
  /\ ticks = t
  /\ clicks = k
  \* the cached frame has been drawn
  /\ canvas = FrameSize("f1")
  /\ layout = [width |-> 640, height |-> 480, left |-> 0, top |-> 0]
  /\ drawn = [image |-> "f1", boxes |-> <<>>]
  /\ decodes = {}
  /\ renderPending = FALSE
  /\ audio = AudioManagerInstance
  /\ playLog = <<>>

ViewInit == ViewState(MaxViewEvents, MaxTicks, 0)

ViewNext ==
  \/ \E c \in CameraIds, body \in ViewBodies : HandleDetection(c, body)
  \/ UpdateClickableDetections
  \/ \E d \in {SOUND_COOLDOWN \div 2, SOUND_COOLDOWN, SOUND_COOLDOWN + 1} : Tick(d)
  \/ \E enabled \in BOOLEAN, suspended \in BOOLEAN : AudioManagerComponent(enabled, suspended)
  \/ initializeResumed

ViewSpec == ViewInit /\ [][ViewNext]_vars

\* playUISound(action): playSound(action) at the default volume 1
playUISound(a, action, t) == playSound(a, action, 100, t)

\* onClick of the overlay div of clickableDetections[i]: the click cue, the
\* onObjectClick prop (a console.log), then the object cue, with no look at
\* lastSoundTime
handleObjectClick(i) ==
  /\ cameraId # "none"
  /\ CanvasMounted
  /\ enableObjectClick
  /\ ~effectPending
  /\ clicks > 0
  /\ i \in DOMAIN clickableDetections
  /\ LET detection == clickableDetections[i]
         cue == IF detection.class_name # ""
                  THEN playObjectDetectionSound(audio, detection.class_name,
                                                Number(ConfidenceOrDefault(detection)), now)
                  ELSE <<>>
     IN playLog' = playLog \o playUISound(audio, "click", now)
                           \o [k \in DOMAIN cue |-> Spread(cue[k], [via |-> "click"])]
  /\ clicks' = clicks - 1
  /\ UNCHANGED <<cameraId, clickableDetections, lastSoundTime, effectPending, now, ticks,
                 canvasVars, audio, socketVars, storeVars, restVars, ghostVars>>

\* the stream view with a user who clicks on the regions
ClickNext ==
  \/ ViewNext
  \/ \E i \in 1..2 : handleObjectClick(i)

ClickInit == ViewState(MaxClickEvents, MaxClickTicks, MaxClicks)

ClickSpec == ClickInit /\ [][ClickNext]_vars

\* ------------------------------------------------------------------------
\* The stream view opened on a listed camera that has no frame and no
\* detection yet (the statuses are those refreshCameras built)
\* ------------------------------------------------------------------------
\* e messages and k commands can still happen
FreshState(e, k) ==
  /\ readyState = "open"
  /\ isConnected = TRUE
  /\ onmessage = "camera"
  /\ connectionStatus = TRUE
  /\ notifications = <<"Connected to server">>
  /\ unanswered = 0
  /\ cameras = <<"cam-1">>
  /\ cameraStatuses =
       [c \in {"cam-1"} |-> [isStreaming |-> FALSE, isDetecting |-> FALSE, lastSeen |-> "created_at"]]
  /\ detectionResults = EmptyObject
  /\ cameraStreams = EmptyObject
  /\ objectCounts = EmptyObject
  /\ isLoading = FALSE
  /\ serverCameras = {"cam-1"}
  /\ usedIds = serverCameras
  /\ pending = {}
  /\ events = e
  /\ commands = k
  /\ lastOp = [op |-> "refreshCameras", cam |-> "-", arg |-> TRUE, known |-> FALSE,
               prevFrame |-> "none"]
  /\ lastFrame = [c \in CameraIds |-> "none"]
  /\ detectedSinceOn = [c \in CameraIds |-> FALSE]
  /\ sinceToggleOff = [c \in CameraIds |-> "none"]
  /\ cameraId = "cam-1"
  /\ clickableDetections = <<>>
  /\ lastSoundTime = EmptyObject
  /\ effectPending = TRUE
  /\ now = SOUND_COOLDOWN + 1
  /\ ticks = 0
  /\ clicks = 0
  /\ canvas = DefaultCanvas
  /\ layout = [width |-> 640, height |-> 480, left |-> 0, top |-> 0]
  /\ drawn = NoDrawing
  /\ decodes = {}
  /\ renderPending = TRUE
  /\ audio = AudioManagerInstance
  /\ playLog = <<>>

EndToEndInit == FreshState(MaxEndToEndEvents, 0)

\* frames and detections arrive, the component's effects run, the audio
\* manager is initialized at some moment or never
EndToEndNext ==
  \/ \E c \in CameraIds, f \in Frames : HandleFrame(c, f)
  \/ \E c \in CameraIds, body \in ViewBodies : HandleDetection(c, body)
  \/ UpdateClickableDetections
  \/ RenderFrame
  \/ \E img \in decodes : ImageLoaded(img)
  \/ \E enabled \in BOOLEAN, suspended \in BOOLEAN : AudioManagerComponent(enabled, suspended)
  \/ initializeResumed

EndToEndSpec == EndToEndInit /\ [][EndToEndNext]_vars

StreamInit == FreshState(MaxStreamEvents, MaxStreamCommands)

\* frames and detections arrive, the user toggles detection from the modal,
\* the component's effects run, images finish decoding, the modal is resized
StreamNext ==
  \/ \E c \in CameraIds, f \in Frames : HandleFrame(c, f)
  \/ \E c \in CameraIds, body \in StreamBodies : HandleDetection(c, body)
  \/ \E c \in CameraIds : toggleDetection(c)
  \/ \E cmd \in pending : toggleDetectionResolved(cmd)
  \/ \E cmd \in pending : toggleDetectionRejected(cmd)
  \/ UpdateClickableDetections
  \/ RenderFrame
  \/ \E img \in decodes : ImageLoaded(img)
  \/ \E l \in Layouts : Resize(l)

StreamSpec == StreamInit /\ [][StreamNext]_vars

\* ------------------------------------------------------------------------
\* Properties
\* ------------------------------------------------------------------------
NoDetectionData(c) ==
  /\ c \notin DOMAIN detectionResults
  /\ c \notin DOMAIN objectCounts

\* C1: a camera that is detecting and for which no detection event was
\* processed since isDetecting last became true has neither a DetectionSet
\* nor ObjectCounts in the store.
C1_NoStaleDetectionData ==
  \A c \in CameraIds :
    (IsDetecting(cameraStatuses, c) /\ ~detectedSinceOn[c]) => NoDetectionData(c)

\* C2: after a successful toggle-off the DetectionSet and ObjectCounts of the
\* camera are absent, and they stay absent, also across a later successful
\* toggle-on, until a detection event for the camera is processed.
C2_ToggleOffClears ==
  \A c \in CameraIds : sinceToggleOff[c] # "none" => NoDetectionData(c)

\* C2 witness: detection was toggled off and on again, no detection event
\* arrived since, and the camera shows as detecting
C2_Witness ==
  \E c \in CameraIds :
    /\ sinceToggleOff[c] = "on"
    /\ IsDetecting(cameraStatuses, c)
    /\ lastOp.op = "toggleDetection" /\ lastOp.cam = c /\ lastOp.arg = <<TRUE, TRUE>>

\* C3: the first frame event for a camera without a status entry creates the
\* entry with isStreaming = true and caches the frame.
C3_UnknownCameraFrame ==
  (lastOp.op = "frame" /\ ~lastOp.known) =>
    /\ lastOp.cam \in DOMAIN cameraStatuses
    /\ IsStreaming(cameraStatuses, lastOp.cam)
    /\ lastOp.cam \in DOMAIN cameraStreams
    /\ cameraStreams[lastOp.cam] = lastOp.arg

\* C3 witness: a frame event was processed for an identifier that was never
\* registered by the listing or by an add
C3_Witness ==
  /\ lastOp.op = "frame"
  /\ ~lastOp.known
  /\ lastOp.cam \notin usedIds
  /\ IsStreaming(cameraStatuses, lastOp.cam)

\* C4: after a detection event the camera is detecting and the DetectionSet
\* and ObjectCounts held for it are exactly those the event carried (none
\* when the event carried no object_counts).
C4_DetectionReplaces ==
  lastOp.op = "detection" =>
    /\ IsDetecting(cameraStatuses, lastOp.cam)
    /\ lastOp.cam \in DOMAIN detectionResults
    /\ detectionResults[lastOp.cam].detections = lastOp.arg.detections
    /\ IF "object_counts" \in DOMAIN lastOp.arg
         THEN /\ lastOp.cam \in DOMAIN objectCounts
              /\ objectCounts[lastOp.cam] = lastOp.arg.object_counts
         ELSE \/ lastOp.cam \notin DOMAIN objectCounts
              \/ objectCounts[lastOp.cam] = EmptyObject

\* C5: after a detection_status event isDetecting is the announced value, and
\* when that value is false the DetectionSet and ObjectCounts are cleared.
C5_DetectionStatusClears ==
  lastOp.op = "detection_status" =>
    /\ IsDetecting(cameraStatuses, lastOp.cam) = lastOp.arg
    /\ (~lastOp.arg => NoDetectionData(lastOp.cam))

\* C6: after a successful stopCamera the camera is not streaming and the
\* store holds neither a cached frame nor a DetectionSet for it.
C6_StopClears ==
  (lastOp.op = "stopCamera" /\ lastOp.arg = <<TRUE>>) =>
    /\ ~IsStreaming(cameraStatuses, lastOp.cam)
    /\ lastOp.cam \notin DOMAIN cameraStreams
    /\ lastOp.cam \notin DOMAIN detectionResults

C8_StatusEntryPersists ==
  [][\A c \in CameraIds :
       (c \in DOMAIN cameraStatuses /\ c \notin DOMAIN cameraStatuses') =>
         (lastOp'.op = "deleteCamera" /\ lastOp'.cam = c /\ lastOp'.arg = <<TRUE>>)]_vars

\* C9: the frame cached for a camera is the payload of the frame event that
\* arrived last for that camera, however events of other cameras interleave;
\* a processed frame event leaves its payload as the one cached frame.
C9_LastFrameWins ==
  /\ \A c \in DOMAIN cameraStreams : cameraStreams[c] \in Frames /\ cameraStreams[c] = lastFrame[c]
  /\ lastOp.op = "frame" =>
       (lastOp.cam \in DOMAIN cameraStreams /\ cameraStreams[lastOp.cam] = lastOp.arg)

\* C9 witness: a frame replaced a different cached frame of the same camera
C9_Witness ==
  /\ lastOp.op = "frame"
  /\ lastOp.prevFrame \notin {"none", lastOp.arg}
  /\ cameraStreams[lastOp.cam] = lastOp.arg

\* C10: with sound alerts enabled, of two calls of the detection-sound
\* trigger for one class made within SOUND_COOLDOWN of each other only one
\* starts a playback, also for two detections of one DetectionSet: no two
\* playbacks of one class start within SOUND_COOLDOWN of each other.
C10_CooldownPerClass ==
  \A i \in DOMAIN playLog : \A j \in DOMAIN playLog :
    (i < j /\ playLog[i].objectType = playLog[j].objectType) =>
      playLog[j].at - playLog[i].at > SOUND_COOLDOWN


\* C11: every started playback of an object cue is more than SOUND_COOLDOWN
\* after the previous started playback for the same class, also when the
\* call of playObjectDetectionSound comes from a click on a region
C11_CooldownEveryPath ==
  \A i \in DOMAIN playLog : \A j \in DOMAIN playLog :
    (/\ i < j
     /\ "via" \in DOMAIN playLog[j]
     /\ "objectType" \in DOMAIN playLog[i]
     /\ playLog[i].objectType = playLog[j].objectType) =>
      playLog[j].at - playLog[i].at > SOUND_COOLDOWN


\* the view's camera got a frame and then, as the second message of the
\* session, a detection event with the one person of confidence 0.92
C12_Scenario ==
  /\ events = MaxEndToEndEvents - 2
  /\ lastOp.op = "detection"
  /\ lastOp.cam = cameraId
  /\ lastOp.arg = [detections |-> <<Person92>>, object_counts |-> [person |-> 1]]
  /\ cameraId \in DOMAIN cameraStreams

\* the store and the regions the scenario yields
C12_StoreAndRegions ==
  /\ IsStreaming(cameraStatuses, cameraId)
  /\ IsDetecting(cameraStatuses, cameraId)
  /\ cameraId \in DOMAIN objectCounts
  /\ objectCounts[cameraId] = [person |-> 1]
  /\ Len(clickableDetections) = 1

\* playSound would start a playback of the person cue
C12_AudioReady ==
  audio.enabled /\ audio.audioContext # "null" /\ "person" \in audio.soundBuffers

C13_ToggledOff(op, c) ==
  /\ op.op = "toggleDetection"
  /\ op.cam = c
  /\ op.arg = <<TRUE, FALSE>>

\* C13: the step that acknowledges a toggle-off for camera c leaves c's
\* cached frame and isStreaming as they were and leaves no objectCounts
\* entry for c (it reads as empty); once the view's effect has run after a
\* toggle-off of the viewed camera, there is no clickable region
C13_ToggleOffKeepsFrame ==
  /\ [][ \A c \in CameraIds :
           (pending' # pending /\ C13_ToggledOff(lastOp', c)) =>
             /\ (c \in DOMAIN cameraStreams') = (c \in DOMAIN cameraStreams)
             /\ c \in DOMAIN cameraStreams => cameraStreams'[c] = cameraStreams[c]
             /\ IsStreaming(cameraStatuses', c) = IsStreaming(cameraStatuses, c)
             /\ c \notin DOMAIN objectCounts' ]_vars
  /\ []( (cameraId # "none" /\ C13_ToggledOff(lastOp, cameraId) /\ ~effectPending) =>
           Len(clickableDetections) = 0 )

\* a toggle-off acknowledged for the viewed camera, which streams with a
\* cached frame and whose detections had produced regions, and the effect
\* has run since
C13_Witness ==
  /\ C13_ToggledOff(lastOp, cameraId)
  /\ ~effectPending
  /\ cameraId \in DOMAIN cameraStreams
  /\ IsStreaming(cameraStatuses, cameraId)
  /\ lastSoundTime # EmptyObject
  /\ clickableDetections = <<>>

\* a detection that has both a class name and a bounding box
C14_HasBoth(d) ==
  /\ "class_name" \in DOMAIN d
  /\ d.class_name # ""
  /\ "bbox" \in DOMAIN d

\* a clickable region without what the component added to its detection
C14_DetectionOf(region) ==
  [k \in DOMAIN region \ {"id", "screenX", "screenY", "screenWidth", "screenHeight"} |->
     region[k]]

\* the step is a pass of the clickable-detections effect over a DetectionSet
C14_PassStep ==
  /\ cameraId \in DOMAIN detectionResults
  /\ "detections" \in DOMAIN detectionResults[cameraId]
  /\ CanvasMounted
  /\ effectPending
  /\ ~effectPending' \/ lastSoundTime' # lastSoundTime

\* C14: the regions a pass of the effect produces are the detections of the
\* DetectionSet that have a class name and a bounding box, in its order, and
\* the annotations an image load draws are the detections of its
\* DetectionSet that have both, in its order; the others contribute nothing
C14_OnlyCompleteDetections ==
  /\ [][ C14_PassStep =>
           LET valid == SelectSeq(detectionResults[cameraId].detections, C14_HasBoth)
           IN /\ Len(clickableDetections') = Len(valid)
              /\ \A i \in DOMAIN valid :
                   C14_DetectionOf(clickableDetections'[i]) = valid[i] ]_vars
  /\ [][ (decodes' # decodes /\ decodes' \subseteq decodes) =>
           LET img == CHOOSE x \in decodes : x \notin decodes'
           IN drawn'.boxes = SelectSeq(img.detections, C14_HasBoth) ]_vars

\* a DetectionSet of five detections, three of them incomplete, has given
\* two regions and two annotations
C14_Witness ==
  /\ cameraId \in DOMAIN detectionResults
  /\ Len(detectionResults[cameraId].detections) = 5
  /\ ~effectPending
  /\ Len(clickableDetections) = 2
  /\ Len(drawn.boxes) = 2

\* the fraction q = <<n, d>> equals num / den
C15_Equals(q, num, den) == q[1] * den = num * q[2]

\* C15: a region computed by a pass of the effect while the canvas shows an
\* image of native size (W, H) in a displayed box of size (W', H') at offset
\* (left, top) has screenWidth = w * W'/W, screenHeight = h * H'/H,
\* screenX = x1 * W'/W + left and screenY = y1 * H'/H + top for its detection's
\* bounding box (x1, y1, w, h)
C15_RegionGeometry ==
  [][ (C14_PassStep /\ drawn.image # "none") =>
        LET W == FrameSize(drawn.image).width
            H == FrameSize(drawn.image).height
        IN \A i \in DOMAIN clickableDetections' :
             LET r == clickableDetections'[i]
             IN /\ C15_Equals(r.screenWidth, r.bbox.width * layout.width, W)
                /\ C15_Equals(r.screenHeight, r.bbox.height * layout.height, H)
                /\ C15_Equals(r.screenX, r.bbox.x1 * layout.width + layout.left * W, W)
                /\ C15_Equals(r.screenY, r.bbox.y1 * layout.height + layout.top * H, H) ]_vars

\* a region computed while the 320 x 240 frame was shown in the 960 x 540 box
C15_Witness ==
  /\ drawn.image = "f2"
  /\ layout.width = 960
  /\ Len(clickableDetections) > 0
  /\ clickableDetections[1].screenWidth = <<clickableDetections[1].bbox.width * 960, 320>>
  /\ clickableDetections[1].screenY[2] = 240

\* the toasts that report a session opened, and those that report a loss
C16_Opened == {i \in DOMAIN notifications : notifications[i] = "Connected to server"}
C17_LossNotices == {i \in DOMAIN notifications : notifications[i] # "Connected to server"}

\* C16: a closed socket stays closed with isConnected false, and no more
\* than one session is ever opened
C16_SingleSession ==
  /\ [][ readyState = "closed" => (readyState' = "closed" /\ ~isConnected') ]_vars
  /\ [](Cardinality(C16_Opened) <= 1)

\* the one session was opened, was used by the camera provider, and closed
C16_Witness ==
  /\ readyState = "closed"
  /\ ~isConnected
  /\ onmessage = "camera"
  /\ Cardinality(C16_Opened) = 1
  /\ events < MaxSocketEvents

\* C17: a lost connection has been notified exactly once when its close has
\* been handled, at most once before, and nothing is notified without a loss
C17_OneNotificationPerLoss ==
  /\ readyState = "closed" => Cardinality(C17_LossNotices) = 1
  /\ readyState = "closing" => Cardinality(C17_LossNotices) <= 1
  /\ readyState \in {"connecting", "open"} => Cardinality(C17_LossNotices) = 0

\* the runtime state of the cameras
C18_CameraState == <<cameraStatuses, cameraStreams, detectionResults, objectCounts>>

\* C18: a step of a transport callback (open, error, close) and a step of
\* the camera provider's reaction to the connection change leave
\* cameraStatuses, cameraStreams, detectionResults and objectCounts as they are
C18_CallbacksKeepCameraState ==
  [][ (\/ readyState' # readyState
       \/ notifications' # notifications
       \/ connectionStatus' # connectionStatus) => UNCHANGED C18_CameraState ]_vars

\* the connection was lost with an error while a camera had a cached frame
\* and a camera had an error recorded
C18_Witness ==
  /\ readyState = "closed"
  /\ ~connectionStatus
  /\ Cardinality(C17_LossNotices) = 2
  /\ cameraStreams # EmptyObject
  /\ \E c \in DOMAIN cameraStatuses : "error" \in DOMAIN cameraStatuses[c]

\* C19: isConnected changes only in a step of the socket's open or close
\* callback; a keepalive probe sent on top of unanswered ones leaves the
\* connection state and the store as they are, and so does a received pong
C19_KeepaliveChangesNothing ==
  /\ [][ isConnected' # isConnected =>
           (readyState' # readyState /\ readyState' \in {"open", "closed"}) ]_vars
  /\ [][ unanswered' > unanswered =>
           UNCHANGED <<readyState, isConnected, connectionStatus, storeVars>> ]_vars
  /\ [][ (events' # events /\ lastOp'.op = "pong") =>
           UNCHANGED <<readyState, isConnected, connectionStatus, storeVars>> ]_vars

\* a pong was the last message handled, MaxPings probes have gone unanswered
\* since, and the connection is still reported open
C19_Witness ==
  /\ lastOp.op = "pong"
  /\ unanswered = MaxPings
  /\ readyState = "open"
  /\ isConnected
  /\ connectionStatus

\* cameraStatuses[c].error, "" when there is none
C20_ErrorOf(statuses, c) ==
  IF c \in DOMAIN statuses /\ "error" \in DOMAIN statuses[c] THEN statuses[c].error ELSE ""

\* C20: the step that handles the rejection of a start, stop or toggle
\* command for camera c leaves a non-empty error on c's status and the error
\* of every other camera as it was
C20_RejectionRecorded ==
  [][ (/\ pending' # pending
       /\ lastOp'.op \in {"startCamera", "stopCamera", "toggleDetection"}
       /\ lastOp'.arg[1] = FALSE) =>
        /\ C20_ErrorOf(cameraStatuses', lastOp'.cam) # ""
        /\ \A d \in CameraIds \ {lastOp'.cam} :
             C20_ErrorOf(cameraStatuses', d) = C20_ErrorOf(cameraStatuses, d) ]_vars

\* the step handles the rejection of the start or stop command cmd
C21_Rejected(cmd) ==
  /\ cmd \in pending
  /\ cmd \notin pending'
  /\ cmd.op \in {"startCamera", "stopCamera"}
  /\ lastOp'.op = cmd.op
  /\ lastOp'.cam = cmd.cam
  /\ lastOp'.arg[1] = FALSE

\* C21: once the failure of a start or stop command is handled, isStreaming
\* of its camera (if the camera still has a status) is what it was when the
\* command was issued
C21_FailureRestoresStreaming ==
  [][ \A cmd \in pending :
        (C21_Rejected(cmd) /\ cmd.cam \in DOMAIN cameraStatuses') =>
          IsStreaming(cameraStatuses', cmd.cam) = cmd.was ]_vars

\* the step issues the toggle command cmd or handles its rejection
C22_FailedToggleStep(cmd) ==
  /\ cmd.op = "toggleDetection"
  /\ \/ cmd \notin pending /\ cmd \in pending'
     \/ /\ cmd \in pending
        /\ cmd \notin pending'
        /\ lastOp'.op = "toggleDetection"
        /\ lastOp'.cam = cmd.cam
        /\ lastOp'.arg = <<FALSE, cmd.enabled>>

\* C22: a detection toggle that fails writes nothing: neither the call nor
\* the handling of its rejection changes the status, the detections or the
\* object counts of any camera, whichever value was requested
C22_FailedToggleChangesNothing ==
  [][ \A cmd \in pending \cup pending' :
        C22_FailedToggleStep(cmd) =>
          /\ cameraStatuses' = cameraStatuses
          /\ detectionResults' = detectionResults
          /\ objectCounts' = objectCounts ]_vars

\* a toggle-off of a detecting camera with detections and counts was rejected
C22_Witness ==
  /\ lastOp.op = "toggleDetection"
  /\ lastOp.arg = <<FALSE, FALSE>>
  /\ IsDetecting(cameraStatuses, lastOp.cam)
  /\ lastOp.cam \in DOMAIN detectionResults
  /\ lastOp.cam \in DOMAIN objectCounts

\* ------------------------------------------------------------------------
\* playObjectDetectionSound on its own: direct calls of the singleton
\* ------------------------------------------------------------------------
MaxCueCalls == 1

\* class names: table keys in several spellings, and classes with no entry
ClassNames ==
  {"person", "Person", "PERSON", "Car", "truck", "dog", "chair", "cell phone",
   "Cell Phone", "zebra", "Zebra", ""}

\* confidences: numbers around the two thresholds, and values that are not
\* numbers
Confidences ==
  {Number(n) : n \in {0, 30, 50, 51, 70, 80, 81, 92, 100}}
    \cup {NotANumber, Undefined, NumericString(90)}

\* AudioManager.getInstance().playObjectDetectionSound(objectType, confidence)
CallPlayObjectDetectionSound(objectType, confidence) ==
  /\ Len(playLog) < MaxCueCalls
  /\ playLog' = playLog \o playObjectDetectionSound(audio, objectType, confidence, now)
  /\ UNCHANGED <<audio, viewVars, socketVars, storeVars, restVars, ghostVars>>

CueInit == ViewState(0, 0, 0)

CueNext ==
  \/ \E enabled \in BOOLEAN, suspended \in BOOLEAN : AudioManagerComponent(enabled, suspended)
  \/ initializeResumed
  \/ \E objectType \in ClassNames, confidence \in Confidences :
       CallPlayObjectDetectionSound(objectType, confidence)

CueSpec == CueInit /\ [][CueNext]_vars

\* the cue the claim names for a class: the table's entry for the lower-cased
\* name, the default cue for a class with no entry
C23_Cue(objectType) ==
  IF toLowerCase(objectType) \in DOMAIN soundMap
    THEN soundMap[toLowerCase(objectType)] ELSE "click"

\* the volume tier the claim names, in percent
C23_Tier(confidence) ==
  LET c == IF confidence.type = "number" THEN confidence.value ELSE 50
  IN IF c > 80 THEN 100 ELSE IF c > 50 /\ c <= 80 THEN 70 ELSE 50

\* C23: every playback playObjectDetectionSound requests has the cue mapped
\* to the lower-cased class name (the default cue for a class not in the
\* table) and the volume tier of the confidence: 1 above 0.8, 0.7 above 0.5
\* up to 0.8, 0.5 otherwise, a confidence that is not a number counting as 0.5
C23_CueAndVolume ==
  \A i \in DOMAIN playLog :
    /\ playLog[i].sound = C23_Cue(playLog[i].objectType)
    /\ playLog[i].volume = C23_Tier(playLog[i].confidence)

\* a call with a class in another spelling and a confidence that is not a
\* number started a playback
C23_Witness ==
  \E i \in DOMAIN playLog :
    /\ playLog[i].objectType = "Cell Phone"
    /\ playLog[i].confidence = NumericString(90)
    /\ playLog[i].sound = "click"
    /\ playLog[i].volume = 50

\* region r is the mapping of its detection for an image of native size
\* (W, H) shown in the box l
C24_Maps(r, W, H, l) ==
  /\ C15_Equals(r.screenWidth, r.bbox.width * l.width, W)
  /\ C15_Equals(r.screenHeight, r.bbox.height * l.height, H)
  /\ C15_Equals(r.screenX, r.bbox.x1 * l.width + l.left * W, W)
  /\ C15_Equals(r.screenY, r.bbox.y1 * l.height + l.top * H, H)

\* C24: the regions follow every rendered frame and every change of the
\* displayed size: once the component's effects have run, every region is the
\* mapping of its detection under the native size of the image on the canvas
\* and the displayed size of the canvas
C24_RegionsFollowRenderAndResize ==
  (cameraId # "none" /\ ~effectPending /\ ~renderPending /\ drawn.image # "none") =>
    \A i \in DOMAIN clickableDetections :
      C24_Maps(clickableDetections[i], canvas.width, canvas.height, layout)

\* C25: a camera with a cached frame in cameraStreams has isStreaming = true
\* in cameraStatuses
C25_CachedFrameImpliesStreaming ==
  \A c \in DOMAIN cameraStreams : IsStreaming(cameraStatuses, c)

\* C26: every message the open socket delivers is handled by CameraProvider's
\* handler, which applies it to the store; none goes to SocketProvider's
\* logging handler only, whenever it arrives after the open callback
C26_NoMessageOnlyLogged ==
  [][ (readyState = "open" /\ events' < events) =>
        /\ lastOp'.op # "log"
        /\ lastOp'.op = "frame" =>
             /\ lastOp'.cam \in DOMAIN cameraStreams'
             /\ cameraStreams'[lastOp'.cam] = lastOp'.arg ]_vars

\* C27: the image on the canvas never regresses: while the canvas shows the
\* frame of the camera that arrived last, no step that brings no new frame
\* draws another (earlier) frame over it, in whatever order the decodes end
C27_ShownFrameNeverRegresses ==
  [][ (/\ cameraId # "none"
       /\ drawn.image # "none"
       /\ drawn.image = lastFrame[cameraId]
       /\ lastFrame'[cameraId] = lastFrame[cameraId]) =>
        drawn'.image = drawn.image ]_vars

\* the cameras whose deleteCamera has succeeded: ids given out once and no
\* longer on the server
C28_Deleted == usedIds \ serverCameras

\* C28: once deleteCamera(c) has succeeded, a frame or detection event for c
\* that is delivered afterwards brings back no status, no cached frame, no
\* detections and no object counts for c
C28_DeletedStaysGone ==
  [][ \A c \in C28_Deleted :
        (events' < events /\ lastOp'.op \in {"frame", "detection"} /\ lastOp'.cam = c) =>
          /\ c \notin DOMAIN cameraStatuses'
          /\ c \notin DOMAIN cameraStreams'
          /\ c \notin DOMAIN detectionResults'
          /\ c \notin DOMAIN objectCounts' ]_vars

\* the objects obj and after hold the same for camera b
C29_SameFor(obj, after, b) ==
  /\ (b \in DOMAIN obj) = (b \in DOMAIN after)
  /\ b \in DOMAIN obj => obj[b] = after[b]

\* the step handles an event for a camera or settles a start, stop, toggle
\* or delete command of a camera (lastOp' names it)
C29_AddressedStep ==
  /\ events' < events \/ (pending' \subseteq pending /\ pending' # pending)
  /\ lastOp'.op \in {"frame", "detection", "detection_status", "startCamera",
                     "stopCamera", "toggleDetection", "deleteCamera"}

\* C29: handling an event, an acknowledgement or a failure addressed to one
\* camera leaves the status, the cached frame, the detections and the object
\* counts of every other camera as they are
C29_OtherCamerasUntouched ==
  [][ C29_AddressedStep =>
        \A b \in CameraIds \ {lastOp'.cam} :
          /\ C29_SameFor(cameraStatuses, cameraStatuses', b)
          /\ C29_SameFor(cameraStreams, cameraStreams', b)
          /\ C29_SameFor(detectionResults, detectionResults', b)
          /\ C29_SameFor(objectCounts, objectCounts', b) ]_vars

\* a camera was deleted while another camera had a status and a cached frame
C29_Witness ==
  /\ lastOp.op = "deleteCamera"
  /\ lastOp.arg = <<TRUE>>
  /\ \E b \in CameraIds \ {lastOp.cam} :
       /\ b \in DOMAIN cameraStatuses
       /\ b \in DOMAIN cameraStreams

\* C30: a camera with isDetecting = true has isStreaming = true
C30_DetectingImpliesStreaming ==
  \A c \in DOMAIN cameraStatuses :
    IsDetecting(cameraStatuses, c) => IsStreaming(cameraStatuses, c)

====
